---- MODULE Spec2Model ----
(***************************************************************************)
(* ToDoBy: the checklist loader of src/load.rs.                            *)
(*                                                                         *)
(* A text is a sequence of characters; a character is a one-element        *)
(* string, and the non-ASCII characters the program names are written by   *)
(* their code point ("U+FF3B").  A line is a text without "\n".            *)
(***************************************************************************)
EXTENDS Integers, Sequences, FiniteSets, TLC

(***************************************************************************)
(* Bounds of the model.                                                    *)
(***************************************************************************)
MaxLines == 3

(***************************************************************************)
(* Characters.                                                             *)
(***************************************************************************)
FullwidthOpen == "U+FF3B"
FullwidthShut == "U+FF3D"
BulletChar == "U+2022"

\* The class \s of the regex crate and char::is_whitespace of str::trim,
\* restricted to the characters of the model.
IsWhitespace(c) == c \in {" ", "\t", "\f"}

\* The class [\*\+\-•] of both item-open patterns.
IsListMarker(c) == c \in {"*", "+", "-", BulletChar}

\* The class . of the regex crate: any character but a line feed.
IsAnyChar(c) == c # "\n"

Rep(c, n) == [i \in 1..n |-> c]

\* s.matches(c).count()
Count(s, c) == Cardinality({i \in 1..Len(s) : s[i] = c})

\* Greedy \s* from position i: the first position at or after i that holds
\* no whitespace (Len(s) + 1 when there is none).
SkipWhitespace(s, i) ==
    LET stops == {j \in i..Len(s) : ~IsWhitespace(s[j])}
    IN  IF stops = {} THEN Len(s) + 1
        ELSE CHOOSE j \in stops : \A k \in stops : j <= k

\* Optional [\*\+\-•]? at position i.
SkipListMarker(s, i) ==
    IF i <= Len(s) /\ IsListMarker(s[i]) THEN i + 1 ELSE i

\* Position of the "[" that ^\s*[\*\+\-•]?\s* leads to.
CheckboxAt(s) == SkipWhitespace(s, SkipListMarker(s, SkipWhitespace(s, 1)))

\* Variant: the pattern without its closing \].
REGEX_LINE_ITEM_OPEN_NoShut(s) ==
    LET b == CheckboxAt(s)
    IN  /\ b + 1 <= Len(s)
        /\ s[b] = "["
        /\ IsAnyChar(s[b + 1])

\* REGEX_LINE_ITEM_OPEN.is_match(s):  ^\s*[\*\+\-•]?\s*\[.\]
REGEX_LINE_ITEM_OPEN(s) ==
    LET b == CheckboxAt(s)
    IN  /\ b + 2 <= Len(s)
        /\ s[b] = "["
        /\ IsAnyChar(s[b + 1])
        /\ s[b + 2] = "]"

\* REGEX_LINE_BLANK.is_match(s):  ^\s*$
REGEX_LINE_BLANK(s) == \A i \in 1..Len(s) : IsWhitespace(s[i])

\* str::trim: the text without its leading and trailing whitespace.
Trim(s) ==
    LET keep == {i \in 1..Len(s) : ~IsWhitespace(s[i])}
    IN  IF keep = {} THEN <<>>
        ELSE LET lo == CHOOSE i \in keep : \A k \in keep : i <= k
                 hi == CHOOSE i \in keep : \A k \in keep : k <= i
             IN  SubSeq(s, lo, hi)

\* Variant: group 1 runs up to the checkbox.
REGEX_LINE_ITEM_OPEN_CAPTURES_WideIndent(s) ==
    LET b == CheckboxAt(s)
    IN  [g1 |-> SubSeq(s, 1, b - 1),
         g2 |-> <<s[b + 1]>>,
         g3 |-> SubSeq(s, SkipWhitespace(s, b + 3), Len(s))]

\* REGEX_LINE_ITEM_OPEN_CAPTURES.captures(s), for a line the pattern
\* matches:  ^(\s*)[\*\+\-•]?\s*\[(.)\]\s*(.*)$
REGEX_LINE_ITEM_OPEN_CAPTURES(s) ==
    LET b == CheckboxAt(s)
    IN  [g1 |-> SubSeq(s, 1, SkipWhitespace(s, 1) - 1),
         g2 |-> <<s[b + 1]>>,
         g3 |-> SubSeq(s, SkipWhitespace(s, b + 3), Len(s))]

\* The classification at the head of the loop body.
LineKindOf(s) ==
    IF REGEX_LINE_ITEM_OPEN(s) THEN "ItemOpen"
    ELSE IF REGEX_LINE_BLANK(s) THEN "Blank"
    ELSE "Other"

(***************************************************************************)
(* whitespace_to_nest: both counts are cast to u8 before they are divided  *)
(* and added, and the addition is a u8 addition.                           *)
(***************************************************************************)
U8(n) == n % 256

TabLevels(s) == U8(Count(s, "\t"))

SpaceLevels(s) == U8(Count(s, " ")) \div 4

\* The u8 addition overflows.
NestOverflows(s) == TabLevels(s) + SpaceLevels(s) > 255

\* Variant: the counts are added as they are, without the casts to u8.
whitespace_to_nest_Uncast(s) == Count(s, "\t") + (Count(s, " ") \div 4)

\* The value returned when the addition does not panic.
whitespace_to_nest(s) == U8(TabLevels(s) + SpaceLevels(s))

(***************************************************************************)
(* Option values and items.                                                *)
(***************************************************************************)
None == <<>>
Some(x) == <<x>>

\* Variant: the sentinel mark is stored as None.
Item_SentinelAsNone(n, k, m) ==
    [nest |-> Some(n), mark |-> IF k = <<"?">> THEN <<>> ELSE Some(k),
     memo |-> Some(m), label1s |-> <<>>, label2s |-> <<>>]

\* Variant: the label fields hold empty vectors.
Item_EmptyLabels(n, k, m) ==
    [nest |-> Some(n), mark |-> Some(k), memo |-> Some(m),
     label1s |-> Some(<<>>), label2s |-> Some(<<>>)]

Item(n, k, m) ==
    [nest |-> Some(n), mark |-> Some(k), memo |-> Some(m),
     label1s |-> None, label2s |-> None]

(***************************************************************************)
(* The lines the line source may yield.                                    *)
(***************************************************************************)
Lines ==
    { <<>>,
      <<" ", "\t">>,
      <<"[", "x", "]", " ", "a">>,
      <<"*", " ", "[", " ", "]", "b">>,
      Rep(" ", 4) \o <<"[", "!", "]", " ", "a", " ", "b", " ">>,
      <<"\t", "\t", "\f", " ", "-", "[", "x", "]">>,
      <<" ", "a", " ", "b", "\t">>,
      <<"b">>,
      <<FullwidthOpen, "x", FullwidthShut, " ", "a">>,
      <<"[", "]", " ", "a">>,
      <<"[", "x", "y", "]", " ", "a">>,
      <<"[", "x", " ", "a">>,
      Rep(" ", 256) \o <<"[", "x", "]", " ", "a">>,
      Rep("\t", 255) \o Rep(" ", 4) \o <<"[", "x", "]", " ", "a">> }

(***************************************************************************)
(* State of one call of load_items_via_buf_read.                           *)
(*   read             the lines the iterator has yielded so far            *)
(*   overflow_checks  whether the build panics on integer overflow         *)
(*   pc               "loop", or how the call ended: "Ok", "Err", "panic"  *)
(* State of one call of a parser of src/item/item_parser.rs.               *)
(*   input            the text the parser is given                         *)
(*   call             "none", or the parser that was called                *)
(*   out              the IResult the call returned                        *)
(***************************************************************************)
VARIABLES vec, state, nest, mark, memo, read, overflow_checks, pc,
          input, call, out

load_vars == <<vec, state, nest, mark, memo, read, overflow_checks, pc>>

parse_vars == <<input, call, out>>

vars == <<load_vars, parse_vars>>

Init ==
    /\ vec = <<>>
    /\ state = "Do"
    /\ nest = 0
    /\ mark = <<"?">>
    /\ memo = <<"?">>
    /\ read = <<>>
    /\ overflow_checks \in BOOLEAN
    /\ pc = "loop"
    /\ input = <<>>
    /\ call = "none"
    /\ out = <<>>

\* Variants of the definitions below, each with one plausible slip.
PushFinished_AnyKind(line_kind) ==
    IF state = "Doing" THEN Append(vec, Item(nest, mark, memo)) ELSE vec

PushFinished_ItemOpenOnly(line_kind) ==
    IF state = "Doing" /\ line_kind = "ItemOpen"
    THEN Append(vec, Item(nest, mark, memo))
    ELSE vec

PushFinished_BlankOnly(line_kind) ==
    IF state = "Doing" /\ line_kind = "Blank"
    THEN Append(vec, Item(nest, mark, memo))
    ELSE vec

PushOther_Untrimmed(s) == memo \o <<"\n">> \o s

OpenNest_Relative(s) ==
    U8(nest + whitespace_to_nest(REGEX_LINE_ITEM_OPEN_CAPTURES(s).g1))

PushFinished_Overwrite(line_kind) ==
    IF state = "Doing" /\ (line_kind = "ItemOpen" \/ line_kind = "Blank")
    THEN IF vec = <<>> THEN <<Item(nest, mark, memo)>>
         ELSE [vec EXCEPT ![Len(vec)] = Item(nest, mark, memo)]
    ELSE vec

PushFinished_Prepend(line_kind) ==
    IF state = "Doing" /\ (line_kind = "ItemOpen" \/ line_kind = "Blank")
    THEN <<Item(nest, mark, memo)>> \o vec
    ELSE vec

NextState_AlwaysDoing(line_kind) == "Doing"

PushPending_Never == vec

\* "If there's an item in progress, then can we finish it?"
PushFinished(line_kind) ==
    IF state = "Doing" /\ (line_kind = "ItemOpen" \/ line_kind = "Blank")
    THEN Append(vec, Item(nest, mark, memo))
    ELSE vec

\* The memo after LineKind::Other.
PushOther(s) == memo \o <<"\n">> \o Trim(s)

\* Variant: the memo fragment is stored as captured.
OpenMemo_Untrimmed(s) == REGEX_LINE_ITEM_OPEN_CAPTURES(s).g3

\* The memo after LineKind::ItemOpen.
OpenMemo(s) == Trim(REGEX_LINE_ITEM_OPEN_CAPTURES(s).g3)

\* The mark after LineKind::ItemOpen.
OpenMark(s) == REGEX_LINE_ITEM_OPEN_CAPTURES(s).g2

\* The nest after LineKind::ItemOpen.
OpenNest(s) == whitespace_to_nest(REGEX_LINE_ITEM_OPEN_CAPTURES(s).g1)

\* The state after a line of each kind.
NextState(line_kind) == IF line_kind = "Blank" THEN "Do" ELSE "Doing"

\* One iteration of the loop on an item-open line.
ItemOpenLine(s) ==
    /\ pc = "loop"
    /\ Len(read) < MaxLines
    /\ LineKindOf(s) = "ItemOpen"
    /\ read' = Append(read, s)
    /\ vec' = PushFinished("ItemOpen")
    /\ state' = NextState("ItemOpen")
    /\ IF overflow_checks /\ NestOverflows(REGEX_LINE_ITEM_OPEN_CAPTURES(s).g1)
       THEN /\ pc' = "panic"
            /\ UNCHANGED <<nest, mark, memo>>
       ELSE /\ pc' = "loop"
            /\ nest' = OpenNest(s)
            /\ mark' = OpenMark(s)
            /\ memo' = OpenMemo(s)
    /\ UNCHANGED <<overflow_checks, parse_vars>>

\* One iteration of the loop on a blank line.
BlankLine(s) ==
    /\ pc = "loop"
    /\ Len(read) < MaxLines
    /\ LineKindOf(s) = "Blank"
    /\ read' = Append(read, s)
    /\ vec' = PushFinished("Blank")
    /\ state' = NextState("Blank")
    /\ UNCHANGED <<nest, mark, memo, overflow_checks, pc, parse_vars>>

\* One iteration of the loop on any other line.
OtherLine(s) ==
    /\ pc = "loop"
    /\ Len(read) < MaxLines
    /\ LineKindOf(s) = "Other"
    /\ read' = Append(read, s)
    /\ vec' = PushFinished("Other")
    /\ state' = NextState("Other")
    /\ memo' = PushOther(s)
    /\ UNCHANGED <<nest, mark, overflow_checks, pc, parse_vars>>

\* `line?` on an I/O error of the line source: the call returns Err.
LineError ==
    /\ pc = "loop"
    /\ pc' = "Err"
    /\ UNCHANGED <<vec, state, nest, mark, memo, read, overflow_checks, parse_vars>>

\* Variant: the held record is pushed at the end whatever the state.
PushPending_Always == Append(vec, Item(nest, mark, memo))

\* The vector returned once the line source is exhausted.
PushPending ==
    IF state = "Doing" THEN Append(vec, Item(nest, mark, memo)) ELSE vec

EndOfInput ==
    /\ pc = "loop"
    /\ vec' = PushPending
    /\ pc' = "Ok"
    /\ UNCHANGED <<state, nest, mark, memo, read, overflow_checks, parse_vars>>

Next ==
    \/ \E s \in Lines : ItemOpenLine(s)
    \/ \E s \in Lines : BlankLine(s)
    \/ \E s \in Lines : OtherLine(s)
    \/ LineError
    \/ EndOfInput

Spec == Init /\ [][Next]_vars

TypeOK ==
    /\ state \in {"Do", "Doing"}
    /\ pc \in {"loop", "Ok", "Err", "panic"}
    /\ nest \in 0..255
    /\ Len(read) <= MaxLines
    /\ Len(vec) <= Len(read)

(***************************************************************************)
(* The combinator parsers of src/item/item_parser.rs.  A parser maps a     *)
(* text to an IResult: Ok with the rest of the text and a value, or Err    *)
(* with the text at which it failed.                                       *)
(***************************************************************************)
MaxBoxLen == 3

MaxDocLines == 3

FullwidthNumberSign == "U+FF03"
FullwidthColon == "U+FF1A"
CheckMark == "U+2713"
GreekAlpha == "U+03B1"

Ok(rest, val) == [ok |-> TRUE, rest |-> rest, val |-> val]

Err(at) == [ok |-> FALSE, rest |-> at, val |-> <<>>]

\* The characters nom's multispace0 takes.
Multispace == {" ", "\t", "\r", "\n"}

\* The characters char::is_alphanumeric holds of, among those of the model.
Alphanumeric == {"a", "b", "c", "x", "y", "1", GreekAlpha}

\* The characters that end not_line_ending.
LineEnding == {"\r", "\n"}

Drop(t, n) == SubSeq(t, n + 1, Len(t))

\* The length of the longest prefix of t that has no character of S.
UntilLen(t, S) ==
    LET stops == {j \in 1..Len(t) : t[j] \in S}
    IN  IF stops = {} THEN Len(t)
        ELSE (CHOOSE j \in stops : \A k \in stops : j <= k) - 1

\* The length of the longest prefix of t that has characters of S only.
RunLen(t, S) ==
    LET stops == {j \in 1..Len(t) : t[j] \notin S}
    IN  IF stops = {} THEN Len(t)
        ELSE (CHOOSE j \in stops : \A k \in stops : j <= k) - 1

\* alt((tag(a), tag(b), ..)) over one-character tags.
TagOneOf(t, tags) ==
    IF t # <<>> /\ t[1] \in tags THEN Ok(Drop(t, 1), <<t[1]>>) ELSE Err(t)

indent(t) ==
    LET n == RunLen(t, Multispace) IN Ok(Drop(t, n), SubSeq(t, 1, n))

list_marker(t) == TagOneOf(t, {"*", "+", "-", BulletChar})

checkbox_open(t) == TagOneOf(t, {"[", FullwidthOpen})

\* take(1): one character, whatever it is.
checkbox_mark(t) == IF t # <<>> THEN Ok(Drop(t, 1), <<t[1]>>) ELSE Err(t)

\* Variants of the definitions below, each with one plausible slip.
checkbox_shut_AsciiOnly(t) == TagOneOf(t, {"]"})

label_splitter_AsciiOnly(t) == TagOneOf(t, {":"})

checkbox_shut(t) == TagOneOf(t, {"]", FullwidthShut})

\* tuple((checkbox_open, checkbox_mark, checkbox_shut))
checkbox(t) ==
    LET a == checkbox_open(t) IN
    IF ~a.ok THEN a ELSE
    LET b == checkbox_mark(a.rest) IN
    IF ~b.ok THEN b ELSE
    LET c == checkbox_shut(b.rest) IN
    IF ~c.ok THEN c ELSE Ok(c.rest, <<a.val, b.val, c.val>>)

label_open(t) == TagOneOf(t, {"#", FullwidthNumberSign})

\* Variant: alphanumeric1, which fails on an empty run.
label_phrase_NonEmpty(t) ==
    LET n == RunLen(t, Alphanumeric)
    IN  IF n = 0 THEN Err(t) ELSE Ok(Drop(t, n), SubSeq(t, 1, n))

\* nom_unicode alphanumeric0: the longest, possibly empty, alphanumeric run.
label_phrase(t) ==
    LET n == RunLen(t, Alphanumeric) IN Ok(Drop(t, n), SubSeq(t, 1, n))

label_splitter(t) == TagOneOf(t, {":", FullwidthColon})

\* tuple((label_open, label_phrase))
label1(t) ==
    LET a == label_open(t) IN
    IF ~a.ok THEN a ELSE
    LET b == label_phrase(a.rest) IN Ok(b.rest, <<a.val, b.val>>)

\* tuple((label_open, label_phrase, label_splitter, label_phrase))
label2(t) ==
    LET a == label1(t) IN
    IF ~a.ok THEN a ELSE
    LET c == label_splitter(a.rest) IN
    IF ~c.ok THEN c ELSE
    LET d == label_phrase(c.rest) IN Ok(d.rest, a.val \o <<c.val, d.val>>)

\* tuple((label_open, label_phrase, label_splitter, label_phrase,
\*        label_splitter, label_phrase))
label3(t) ==
    LET a == label2(t) IN
    IF ~a.ok THEN a ELSE
    LET c == label_splitter(a.rest) IN
    IF ~c.ok THEN c ELSE
    LET d == label_phrase(c.rest) IN Ok(d.rest, a.val \o <<c.val, d.val>>)

\* not_line_ending: the text up to the first "\n" or "\r\n"; an error at a
\* "\r" that no "\n" follows.
parse_memo(t) ==
    LET n == UntilLen(t, LineEnding)
    IN  IF n < Len(t) /\ t[n + 1] = "\r" /\ ~(n + 2 <= Len(t) /\ t[n + 2] = "\n")
        THEN Err(t)
        ELSE Ok(Drop(t, n), SubSeq(t, 1, n))

one(t) ==
    LET a == indent(t)
        b == list_marker(a.rest)
    IN  IF ~b.ok THEN b ELSE
        LET c == indent(b.rest)
            d == checkbox(c.rest)
        IN  IF ~d.ok THEN d ELSE
            LET e == indent(d.rest)
                f == parse_memo(e.rest)
            IN  IF ~f.ok THEN f ELSE
                Ok(indent(f.rest).rest, Item(0, d.val[2], f.val))

\* nom::multi::many0(one): items are collected until `one` fails; a success
\* that consumed nothing is an error.
RECURSIVE many0_loop(_, _)
many0_loop(i, acc) ==
    LET r == one(i)
    IN  IF ~r.ok THEN Ok(i, acc)
        ELSE IF Len(r.rest) = Len(i) THEN Err(i)
        ELSE many0_loop(r.rest, Append(acc, r.val))

many0(t) == many0_loop(t, <<>>)

(***************************************************************************)
(* load_items_via_str as a function of its text: BufRead::lines splits the *)
(* text, and the loop of load_items_via_buf_read folds its body over the   *)
(* lines, starting from the initial values of its locals.                  *)
(***************************************************************************)
\* BufRead::lines: the text between line feeds, without the line feed and
\* without a carriage return right before it; no line after the last feed.
RECURSIVE lines(_)
lines(t) ==
    IF t = <<>> THEN <<>>
    ELSE LET n == UntilLen(t, {"\n"})
             l == SubSeq(t, 1, n)
         IN  << IF n < Len(t) /\ l # <<>> /\ l[Len(l)] = "\r"
                THEN SubSeq(l, 1, Len(l) - 1)
                ELSE l >>
             \o lines(Drop(t, n + 1))

\* The locals of load_items_via_buf_read before the first line.
Locals ==
    [vec |-> <<>>, state |-> "Do", nest |-> 0, mark |-> <<"?">>,
     memo |-> <<"?">>, pc |-> "loop"]

\* Variants of the definitions below, each with one plausible slip.
Finished_ItemOpenOnly(a, line_kind) ==
    IF a.state = "Doing" /\ line_kind = "ItemOpen"
    THEN Append(a.vec, Item(a.nest, a.mark, a.memo))
    ELSE a.vec

\* "If there's an item in progress, then can we finish it?"
Finished(a, line_kind) ==
    IF a.state = "Doing" /\ (line_kind = "ItemOpen" \/ line_kind = "Blank")
    THEN Append(a.vec, Item(a.nest, a.mark, a.memo))
    ELSE a.vec

\* The body of the loop, from the locals a, on the line s.
LoopBody(a, s) ==
    LET line_kind == LineKindOf(s)
        captures == REGEX_LINE_ITEM_OPEN_CAPTURES(s)
        pushed == [a EXCEPT !.vec = Finished(a, line_kind)]
    IN  IF a.pc # "loop" THEN a
        ELSE IF line_kind = "ItemOpen"
        THEN IF overflow_checks /\ NestOverflows(captures.g1)
             THEN [pushed EXCEPT !.state = "Doing", !.pc = "panic"]
             ELSE [pushed EXCEPT !.state = "Doing",
                                 !.nest = whitespace_to_nest(captures.g1),
                                 !.mark = captures.g2,
                                 !.memo = Trim(captures.g3)]
        ELSE IF line_kind = "Blank"
        THEN [pushed EXCEPT !.state = "Do"]
        ELSE [pushed EXCEPT !.state = "Doing",
                            !.memo = a.memo \o <<"\n">> \o Trim(s)]

RECURSIVE LoopOver(_, _)
LoopOver(a, ls) ==
    IF ls = <<>> THEN a ELSE LoopOver(LoopBody(a, ls[1]), Tail(ls))

\* How the call ends on the lines ls, and the vector it has then.
load_items_via_buf_read(ls) ==
    LET a == LoopOver(Locals, ls)
    IN  IF a.pc = "panic" THEN [pc |-> "panic", vec |-> a.vec]
        ELSE [pc |-> "Ok",
              vec |-> IF a.state = "Doing"
                      THEN Append(a.vec, Item(a.nest, a.mark, a.memo))
                      ELSE a.vec]

load_items_via_str(t) == load_items_via_buf_read(lines(t))

(***************************************************************************)
(* Display for Item (src/item/item.rs).                                    *)
(***************************************************************************)
LIST_ITEM_SYMBOL_DEFAULT == <<>>
LIST_ITEM_SYMBOL_SPACER_DEFAULT == <<>>
CHECKBOX_PREFIX_DEFAULT == <<>>
CHECKBOX_OPEN_DEFAULT == <<"[">>
CHECKBOX_MARK_DEFAULT == <<" ">>
CHECKBOX_SHUT_DEFAULT == <<"]">>
CHECKBOX_SUFFIX_DEFAULT == <<" ">>
MEMO_DEFAULT == <<"?">>

\* Variants of the definition below, each with one plausible slip.
fmt_MarkDefault(item) ==
    CHECKBOX_OPEN_DEFAULT \o CHECKBOX_MARK_DEFAULT \o CHECKBOX_SHUT_DEFAULT
        \o CHECKBOX_SUFFIX_DEFAULT
        \o (IF item.memo = None THEN MEMO_DEFAULT ELSE item.memo[1])

fmt_Indented(item) ==
    (IF item.nest = None THEN <<>> ELSE Rep("\t", item.nest[1]))
        \o CHECKBOX_OPEN_DEFAULT
        \o (IF item.mark = None THEN CHECKBOX_MARK_DEFAULT ELSE item.mark[1])
        \o CHECKBOX_SHUT_DEFAULT
        \o CHECKBOX_SUFFIX_DEFAULT
        \o (IF item.memo = None THEN MEMO_DEFAULT ELSE item.memo[1])

fmt(item) ==
    LIST_ITEM_SYMBOL_DEFAULT
        \o LIST_ITEM_SYMBOL_SPACER_DEFAULT
        \o CHECKBOX_PREFIX_DEFAULT
        \o CHECKBOX_OPEN_DEFAULT
        \o (IF item.mark = None THEN CHECKBOX_MARK_DEFAULT ELSE item.mark[1])
        \o CHECKBOX_SHUT_DEFAULT
        \o CHECKBOX_SUFFIX_DEFAULT
        \o (IF item.memo = None THEN MEMO_DEFAULT ELSE item.memo[1])

(***************************************************************************)
(* The texts the parsers are given.                                        *)
(***************************************************************************)
SeqsUpTo(S, n) == UNION {[1..k -> S] : k \in 0..n}

BoxTexts ==
    SeqsUpTo({"[", "]", FullwidthOpen, FullwidthShut, "x", CheckMark}, MaxBoxLen)

LabelOpens == {"#", FullwidthNumberSign}

LabelSplitters == {":", FullwidthColon}

Phrases == {<<"a">>, <<"a", "1">>, <<GreekAlpha>>}

LabelTexts ==
    {o \o p1 \o s1 \o p2 \o s2 \o p3 \o e :
        o \in {<<>>} \cup {<<c>> : c \in LabelOpens},
        p1 \in Phrases \cup {<<>>},
        s1 \in {<<>>} \cup {<<c>> : c \in LabelSplitters},
        p2 \in Phrases \cup {<<>>},
        s2 \in {<<>>} \cup {<<c>> : c \in LabelSplitters},
        p3 \in Phrases \cup {<<>>},
        e \in {<<>>, <<" ">>}}

Marks == {"x", " ", "!"}

Memos == {<<"a">>, <<"b", " ", "c">>}

BoxLine(m, memo_text) == <<"[", m, "]", " ">> \o memo_text

\* A label as it stands in a line.
LabelText == <<"#", "a", ":", "1">>

DocLines ==
    {BoxLine(m, x) : m \in Marks, x \in Memos}
    \cup {<<"*", " ">> \o BoxLine("x", x) : x \in Memos}
    \cup { <<>>,
           <<" ", " ", "+", " ", "[", "!", "]", "a", " ">>,
           <<"-", " ", FullwidthOpen, CheckMark, "]", " ", "a">>,
           <<"b">>,
           <<"*", " ">> \o BoxLine("x", <<"a", " ">> \o LabelText),
           <<" ">> \o LabelText }

RECURSIVE JoinDoc(_)
JoinDoc(ls) == IF ls = <<>> THEN <<>> ELSE ls[1] \o <<"\n">> \o JoinDoc(Tail(ls))

Documents == {JoinDoc(ls) : ls \in SeqsUpTo(DocLines, MaxDocLines)}

\* Memo texts with a two-phrase label after other text.
LabelledMemos ==
    {<<"b", " ", o>> \o p1 \o <<s1>> \o p2 :
        o \in LabelOpens, p1 \in Phrases, s1 \in LabelSplitters, p2 \in Phrases}

ParseInputs == BoxTexts \cup LabelTexts \cup Documents \cup LabelledMemos

ParseInit ==
    /\ vec = <<>>
    /\ state = "Do"
    /\ nest = 0
    /\ mark = <<"?">>
    /\ memo = <<"?">>
    /\ read = <<>>
    /\ overflow_checks = FALSE
    /\ pc = "loop"
    /\ input \in ParseInputs
    /\ call = "none"
    /\ out = <<>>

Called(name, result) ==
    /\ call = "none"
    /\ call' = name
    /\ out' = result
    /\ UNCHANGED <<input, load_vars>>

CallOne == Called("one", one(input))

CallMany0 == Called("many0", many0(input))

CallCheckbox == Called("checkbox", checkbox(input))

CallLabel1 == Called("label1", label1(input))

CallLabel2 == Called("label2", label2(input))

CallLabel3 == Called("label3", label3(input))

CallLabelPhrase == Called("label_phrase", label_phrase(input))

CallLoadItemsViaStr == Called("load_items_via_str", load_items_via_str(input))

ParseNext ==
    \/ CallOne
    \/ CallMany0
    \/ CallLoadItemsViaStr
    \/ CallCheckbox
    \/ CallLabel1
    \/ CallLabel2
    \/ CallLabel3
    \/ CallLabelPhrase

ParseSpec == ParseInit /\ [][ParseNext]_vars

(***************************************************************************)
(* The items Display is given: every field may be None, the mark may be    *)
(* any string and the memo may hold several lines.                         *)
(***************************************************************************)
Items ==
    [nest : {None, Some(0), Some(3), Some(255)},
     mark : {None, Some(<<>>), Some(<<"x">>), Some(<<" ">>), Some(<<"x", "y">>)},
     memo : {None, Some(<<>>), Some(<<"a">>), Some(<<"a", " ", "b", "\n", "c">>)},
     label1s : {None, Some(<< <<"a">> >>)},
     label2s : {None, Some(<< << <<"a">>, <<"1">> >> >>)}]

FmtInit ==
    /\ vec = <<>>
    /\ state = "Do"
    /\ nest = 0
    /\ mark = <<"?">>
    /\ memo = <<"?">>
    /\ read = <<>>
    /\ overflow_checks = FALSE
    /\ pc = "loop"
    /\ input \in Items
    /\ call = "none"
    /\ out = <<>>

\* item.to_string()
CallFmt == Called("fmt", fmt(input))

FmtNext == CallFmt

FmtSpec == FmtInit /\ [][FmtNext]_vars

\* The loop, step by step, ends as the fold over the lines read does.
LoopIsFold ==
    pc \in {"Ok", "panic"} => [pc |-> pc, vec |-> vec] = load_items_via_buf_read(read)

(***************************************************************************)
(* The whitespace whitespace_to_nest is given: runs of tabs and spaces     *)
(* whose lengths lie on both sides of the u8 range, and mixed runs.        *)
(***************************************************************************)
TabCounts == {0, 1, 2, 255, 256, 257}

SpaceCounts == {0, 1, 3, 4, 5, 8, 255, 256, 260, 1020, 1023}

Whitespaces ==
    {Rep("\t", i) \o Rep(" ", j) : i \in TabCounts, j \in SpaceCounts}
    \cup {Rep(" ", j) \o Rep("\t", i) : i \in {1, 2}, j \in {3, 4, 5}}
    \cup { <<" ", "\t", " ", "\f", " ", " ">>, <<"\f", "\f">> }

NestInit ==
    /\ vec = <<>>
    /\ state = "Do"
    /\ nest = 0
    /\ mark = <<"?">>
    /\ memo = <<"?">>
    /\ read = <<>>
    /\ overflow_checks \in BOOLEAN
    /\ pc = "loop"
    /\ input \in Whitespaces
    /\ call = "none"
    /\ out = <<>>

\* whitespace_to_nest(s): the call panics when the u8 addition overflows in
\* a build that checks overflow, and otherwise returns the wrapped sum.
CallWhitespaceToNest ==
    Called("whitespace_to_nest",
           IF overflow_checks /\ NestOverflows(input)
           THEN [panic |-> TRUE, val |-> 0]
           ELSE [panic |-> FALSE, val |-> whitespace_to_nest(input)])

NestNext == CallWhitespaceToNest

NestSpec == NestInit /\ [][NestNext]_vars

(***************************************************************************)
(* Vocabulary of the properties: what a document (the lines read) says.    *)
(***************************************************************************)
Last(q) == q[Len(q)]

ItemOpenLines(d) == {i \in 1..Len(d) : LineKindOf(d[i]) = "ItemOpen"}

BlankLines(d) == {i \in 1..Len(d) : LineKindOf(d[i]) = "Blank"}

OtherLines(d) == {i \in 1..Len(d) : LineKindOf(d[i]) = "Other"}

\* The Other lines read while no record is in progress: at the start of the
\* document or right after a Blank line.
IdleOtherLines(d) == {i \in OtherLines(d) : i = 1 \/ (i - 1) \in BlankLines(d)}

\* The lines that start a record, and the k-th of them.
StartLines(d) == ItemOpenLines(d) \cup IdleOtherLines(d)

Kth(S, k) == CHOOSE i \in S : Cardinality({j \in S : j < i}) = k - 1

\* A newline and the trimmed line, for each of the lines lo..hi that is not
\* blank.
RECURSIVE JoinLines(_, _, _)
JoinLines(d, lo, hi) ==
    IF lo > hi THEN <<>>
    ELSE (IF lo \in BlankLines(d) THEN <<>> ELSE <<"\n">> \o Trim(d[lo]))
         \o JoinLines(d, lo + 1, hi)

IsSuffix(x, y) == Len(x) <= Len(y) /\ SubSeq(y, Len(y) - Len(x) + 1, Len(y)) = x

\* The accumulator's state follows from the last line read.
StateFollowsLastLine ==
    pc = "loop" =>
        state = (IF read = <<>> THEN "Do" ELSE NextState(LineKindOf(Last(read))))

(***************************************************************************)
(* C1 (as stated): for every document the call returns a result for, the   *)
(* number of records equals the number of ItemOpen lines.                  *)
(***************************************************************************)
C1_CountEqualsItemOpen ==
    pc = "Ok" => Len(vec) = Cardinality(ItemOpenLines(read))

(***************************************************************************)
(* C1 (amended): the number of records equals the number of ItemOpen lines *)
(* plus the number of Other lines read while no record is in progress;     *)
(* Blank lines, and Other lines read while a record is in progress, never  *)
(* create or destroy a record.                                             *)
(***************************************************************************)
C1_CountEqualsStartLines ==
    pc = "Ok" => Len(vec) = Cardinality(ItemOpenLines(read))
                            + Cardinality(IdleOtherLines(read))

C1_Witness ==
    /\ pc = "Ok"
    /\ Len(vec) = 2
    /\ Cardinality(ItemOpenLines(read)) = 1
    /\ Cardinality(IdleOtherLines(read)) = 1
    /\ Cardinality(BlankLines(read)) = 1

(***************************************************************************)
(* C2: an Other line read while Idle starts a record with nest 0, mark     *)
(* "?" and the trimmed line alone as memo.                                 *)
(***************************************************************************)
C2_IdleOtherStartsFresh ==
    (pc = "loop" /\ Len(read) \in IdleOtherLines(read)) =>
        /\ nest = 0
        /\ mark = <<"?">>
        /\ memo = Trim(Last(read))

(***************************************************************************)
(* C3 (as stated): a document without ItemOpen lines gives zero records    *)
(* (all lines blank) or exactly one record, whose memo holds all the       *)
(* non-blank lines.                                                        *)
(***************************************************************************)
C3_AtMostOneRecord ==
    (pc = "Ok" /\ ItemOpenLines(read) = {}) =>
        \/ OtherLines(read) = {} /\ vec = <<>>
        \/ /\ Len(vec) = 1
           /\ IsSuffix(JoinLines(read, 1, Len(read)), vec[1].memo[1])

(***************************************************************************)
(* C3 (amended): a document without ItemOpen lines never panics and gives  *)
(* one record per run of consecutive non-blank lines: zero records when    *)
(* all lines are blank, exactly one when no blank line stands between two  *)
(* text lines; the memo of the last record is the placeholder "?" followed *)
(* by every non-blank line of the document, each trimmed, each after a     *)
(* newline.                                                                *)
(***************************************************************************)
C3_OneRecordPerRun ==
    ItemOpenLines(read) = {} =>
        /\ pc # "panic"
        /\ pc = "Ok" =>
            /\ Len(vec) = Cardinality(IdleOtherLines(read))
            /\ vec # <<>> =>
                Last(vec).memo = Some(<<"?">> \o JoinLines(read, 1, Len(read)))

C3_Witness ==
    /\ pc = "Ok"
    /\ ItemOpenLines(read) = {}
    /\ Len(vec) = 2
    /\ BlankLines(read) = {2}

(***************************************************************************)
(* C4: a line with full-width brackets classifies and loads as the same    *)
(* line with ASCII brackets does.                                          *)
(***************************************************************************)
AsciiBrackets(s) ==
    [i \in 1..Len(s) |->
        IF s[i] = FullwidthOpen THEN "["
        ELSE IF s[i] = FullwidthShut THEN "]"
        ELSE s[i]]

C4_FullwidthEquivalent ==
    (pc = "loop" /\ read # <<>>
        /\ LineKindOf(AsciiBrackets(Last(read))) = "ItemOpen") =>
        /\ LineKindOf(Last(read)) = "ItemOpen"
        /\ mark = OpenMark(AsciiBrackets(Last(read)))
        /\ memo = OpenMemo(AsciiBrackets(Last(read)))

(***************************************************************************)
(* C5: after an ItemOpen line followed only by Other lines, the memo is    *)
(* the line's memo fragment followed by a newline and the trimmed text of  *)
(* each Other line, and nest and mark are those of the ItemOpen line; at   *)
(* end of input that is the last record (the only one when the ItemOpen    *)
(* line is the first line).                                                *)
(***************************************************************************)
C5_ContinuationAppends ==
    \A o \in ItemOpenLines(read) :
        (pc \in {"loop", "Ok"} /\ \A j \in (o + 1)..Len(read) : j \in OtherLines(read)) =>
            /\ memo = OpenMemo(read[o]) \o JoinLines(read, o + 1, Len(read))
            /\ mark = OpenMark(read[o])
            /\ nest = OpenNest(read[o])
            /\ pc = "Ok" => Last(vec) = Item(nest, mark, memo)
            /\ (pc = "Ok" /\ o = 1) => Len(vec) = 1

C5_Witness ==
    /\ pc = "Ok"
    /\ Len(read) = 3
    /\ ItemOpenLines(read) = {1}
    /\ OtherLines(read) = {2, 3}
    /\ Trim(read[3]) # read[3]
    /\ Len(vec) = 1

(***************************************************************************)
(* C6: a Blank line read while a record is in progress appends that        *)
(* record, as the accumulator holds it, to the output and moves to Do; a   *)
(* Blank line read while in Do leaves the output and the state as they     *)
(* are; in both cases nest, mark and memo stay as they are.                *)
(***************************************************************************)
C6_BlankLineCloses ==
    [][(read' # read /\ Len(read') \in BlankLines(read')) =>
        /\ state' = "Do"
        /\ <<nest', mark', memo'>> = <<nest, mark, memo>>
        /\ state = "Doing" => vec' = Append(vec, Item(nest, mark, memo))
        /\ state = "Do" => vec' = vec]_vars

C6_Witness ==
    /\ pc = "loop"
    /\ state = "Do"
    /\ Len(read) = 3
    /\ ItemOpenLines(read) = {1}
    /\ BlankLines(read) = {2, 3}
    /\ vec = <<Item(OpenNest(read[1]), OpenMark(read[1]), OpenMemo(read[1]))>>

(***************************************************************************)
(* C7: an ItemOpen line read while a record is in progress appends that    *)
(* record, with the nest, mark and memo it had before the line, to the     *)
(* output, and the accumulator then holds the record of this line; a       *)
(* document of ItemOpen lines only gives one record per line, in order.    *)
(***************************************************************************)
C7_ItemOpenClosesAndOpens ==
    [][/\ (read' # read /\ Len(read') \in ItemOpenLines(read') /\ state = "Doing") =>
            /\ vec' = Append(vec, Item(nest, mark, memo))
            /\ state' = "Doing"
            /\ pc' = "loop" =>
                /\ nest' = OpenNest(Last(read'))
                /\ mark' = OpenMark(Last(read'))
                /\ memo' = OpenMemo(Last(read'))
       /\ (pc' = "Ok" /\ ItemOpenLines(read') = 1..Len(read')) =>
            vec' = [i \in 1..Len(read') |->
                      Item(OpenNest(read'[i]), OpenMark(read'[i]), OpenMemo(read'[i]))]
      ]_vars

C7_Witness ==
    /\ pc = "Ok"
    /\ Len(read) = 3
    /\ ItemOpenLines(read) = {1, 2, 3}
    /\ Len(vec) = 3
    /\ vec[1] # vec[2]
    /\ vec[2] # vec[3]

(***************************************************************************)
(* C8: when the line source is exhausted while a record is in progress,    *)
(* that record is the last element of the result: after a last line that   *)
(* is an ItemOpen line it carries that line's mark and memo fragment,      *)
(* after a last line that is an Other line its memo ends with that line.   *)
(***************************************************************************)
C8_PendingEmittedAtEnd ==
    (pc = "Ok" /\ read # <<>> /\ Len(read) \notin BlankLines(read)) =>
        /\ vec # <<>>
        /\ Last(vec) = Item(nest, mark, memo)
        /\ Len(read) \in ItemOpenLines(read) =>
            /\ Last(vec).mark = Some(OpenMark(Last(read)))
            /\ Last(vec).memo = Some(OpenMemo(Last(read)))
        /\ Len(read) \in OtherLines(read) =>
            IsSuffix(<<"\n">> \o Trim(Last(read)), Last(vec).memo[1])

C8_Witness ==
    /\ pc = "Ok"
    /\ Len(read) = 3
    /\ BlankLines(read) = {2}
    /\ ItemOpenLines(read) = {1, 3}
    /\ Len(vec) = 2
    /\ Last(vec).memo = Some(OpenMemo(read[3]))

(***************************************************************************)
(* C9: the nest taken from the leading whitespace of an ItemOpen line is   *)
(* the number of its tabs plus a quarter, rounded down, of the number of   *)
(* its spaces, whatever its length.                                        *)
(***************************************************************************)
C9_NestIsTabsPlusQuarterSpaces ==
    (pc = "loop" /\ Len(read) \in ItemOpenLines(read)) =>
        LET ws == REGEX_LINE_ITEM_OPEN_CAPTURES(Last(read)).g1
        IN  nest = Count(ws, "\t") + (Count(ws, " ") \div 4)

(***************************************************************************)
(* C10: the nest of every record that an ItemOpen line opened is the depth *)
(* of that line's own leading whitespace, whatever lines came before it    *)
(* and whatever the nest of the record before it.                          *)
(***************************************************************************)
C10_NestFromOwnLine ==
    \A k \in 1..Len(vec) :
        LET i == Kth(StartLines(read), k)
        IN  i \in ItemOpenLines(read) =>
                vec[k].nest =
                    Some(whitespace_to_nest(REGEX_LINE_ITEM_OPEN_CAPTURES(read[i]).g1))

C10_Witness ==
    /\ pc = "Ok"
    /\ Len(vec) = 3
    /\ ItemOpenLines(read) = {1, 2, 3}
    /\ vec[1].nest = Some(0)
    /\ vec[2].nest = Some(2)
    /\ vec[3].nest = Some(0)

(***************************************************************************)
(* Vocabulary of C13: a list bullet and the whitespace after it, put at    *)
(* the front of a line or right before its checkbox.                       *)
(***************************************************************************)
Bullets == {"*", "+", "-", BulletChar}

BulletSpacing == {<<>>, <<" ">>, <<"\t", " ">>}

FirstVisible(l) == SkipWhitespace(l, 1)

StartsWithCheckbox(l) == FirstVisible(l) <= Len(l) /\ l[FirstVisible(l)] = "["

PrefixBullet(l, b, w) == <<b>> \o w \o l

InsertBullet(l, b, w) ==
    SubSeq(l, 1, FirstVisible(l) - 1) \o <<b>> \o w
        \o SubSeq(l, FirstVisible(l), Len(l))

(***************************************************************************)
(* C13 (as stated): the line made by putting a list bullet and optional    *)
(* whitespace in front of a checkbox line loads as the line itself: it is  *)
(* an ItemOpen line with the same nest, mark and memo.                     *)
(***************************************************************************)
C13_BulletPrefixChangesNothing ==
    (pc = "loop" /\ Len(read) \in ItemOpenLines(read)
        /\ StartsWithCheckbox(Last(read))) =>
        \A b \in Bullets, w \in BulletSpacing :
            LET v == PrefixBullet(Last(read), b, w)
            IN  /\ LineKindOf(v) = "ItemOpen"
                /\ <<OpenNest(v), OpenMark(v), OpenMemo(v)>> = <<nest, mark, memo>>

(***************************************************************************)
(* C13 (amended): the line made by putting a list bullet and optional      *)
(* whitespace right before the checkbox of a checkbox line, after the      *)
(* line's leading whitespace, loads as the line itself: it is an ItemOpen  *)
(* line with the same nest, mark and memo, and the bullet is no part of    *)
(* the memo.                                                               *)
(***************************************************************************)
C13_BulletBeforeCheckboxChangesNothing ==
    (pc = "loop" /\ Len(read) \in ItemOpenLines(read)
        /\ StartsWithCheckbox(Last(read))) =>
        \A b \in Bullets, w \in BulletSpacing :
            LET v == InsertBullet(Last(read), b, w)
            IN  /\ LineKindOf(v) = "ItemOpen"
                /\ <<OpenNest(v), OpenMark(v), OpenMemo(v)>> = <<nest, mark, memo>>

C13_Witness ==
    /\ pc = "loop"
    /\ Len(read) \in ItemOpenLines(read)
    /\ StartsWithCheckbox(Last(read))
    /\ nest = 1
    /\ mark = <<"!">>
    /\ memo = <<"a", " ", "b">>

(***************************************************************************)
(* C15: a line that holds no checkbox (an open bracket, one character, a   *)
(* shut bracket) is read without ending the call and is never an ItemOpen  *)
(* line: it is a Blank line when it is all whitespace and otherwise an     *)
(* Other line whose trimmed text goes to the memo after a newline.         *)
(***************************************************************************)
HasCheckbox(l) ==
    \E i \in 1..(Len(l) - 2) :
        /\ l[i] \in {"[", FullwidthOpen}
        /\ l[i + 2] \in {"]", FullwidthShut}

AllWhitespace(l) == \A i \in 1..Len(l) : l[i] \in {" ", "\t", "\f"}

C15_MalformedIsPlainText ==
    [][(read' # read /\ ~HasCheckbox(Last(read'))) =>
        /\ pc' = "loop"
        /\ Len(read') \notin ItemOpenLines(read')
        /\ Len(read') \in BlankLines(read') <=> AllWhitespace(Last(read'))
        /\ ~AllWhitespace(Last(read')) =>
            /\ memo' = memo \o <<"\n">> \o Trim(Last(read'))
            /\ <<nest', mark'>> = <<nest, mark>>]_vars

C15_Witness ==
    /\ pc = "loop"
    /\ read = << <<"[", "]", " ", "a">>,
                 <<"[", "x", "y", "]", " ", "a">>,
                 <<"[", "x", " ", "a">> >>
    /\ vec = <<>>
    /\ mark = <<"?">>

(***************************************************************************)
(* C16: whatever the lines are, the call never stops before the line       *)
(* source is exhausted, unless the line source itself fails.               *)
(***************************************************************************)
C16_NeverStopsEarly == pc \in {"loop", "Ok", "Err"}

(***************************************************************************)
(* C17: every record of the output has a nest, a mark and a memo; a record *)
(* started before any ItemOpen line was read has nest 0, the mark "?" and  *)
(* a memo that begins with "?".                                            *)
(***************************************************************************)
C17_FieldsAlwaysPresent ==
    \A k \in 1..Len(vec) :
        /\ Len(vec[k].nest) = 1
        /\ Len(vec[k].mark) = 1
        /\ Len(vec[k].memo) = 1
        /\ (\A i \in ItemOpenLines(read) : i > Kth(StartLines(read), k)) =>
            /\ vec[k].nest = <<0>>
            /\ vec[k].mark = << <<"?">> >>
            /\ vec[k].memo[1][1] = "?"

C17_Witness ==
    /\ pc = "Ok"
    /\ Len(vec) = 2
    /\ ItemOpenLines(read) = {3}
    /\ vec[1].mark = << <<"?">> >>
    /\ vec[2].mark = << <<"!">> >>

(***************************************************************************)
(* C18: no step changes a record that is already in the output: the output *)
(* only grows at its end.                                                  *)
(***************************************************************************)
C18_EmittedRecordsUnchanged ==
    [][Len(vec') >= Len(vec) /\ SubSeq(vec', 1, Len(vec)) = vec]_vars

C18_Witness ==
    /\ pc = "loop"
    /\ state = "Doing"
    /\ ItemOpenLines(read) = {1, 2}
    /\ OtherLines(read) = {3}
    /\ Len(vec) = 1
    /\ vec[1].memo # <<memo>>
    /\ vec[1].mark # <<mark>>

(***************************************************************************)
(* C19: the k-th record of the result is the one the k-th record-starting  *)
(* line of the document started (for an ItemOpen line it has the line's    *)
(* mark and its memo begins with the line's memo fragment), no record is   *)
(* dropped, and equal ItemOpen lines give equal records.                   *)
(***************************************************************************)
IsPrefix(x, y) == Len(x) <= Len(y) /\ SubSeq(y, 1, Len(x)) = x

C19_OrderPreserved ==
    pc = "Ok" =>
        /\ Len(vec) = Cardinality(StartLines(read))
        /\ \A k \in 1..Len(vec) :
            LET i == Kth(StartLines(read), k)
            IN  i \in ItemOpenLines(read) =>
                    /\ vec[k].mark = <<OpenMark(read[i])>>
                    /\ IsPrefix(OpenMemo(read[i]), vec[k].memo[1])
        /\ ItemOpenLines(read) = 1..Len(read) =>
            \A i, j \in 1..Len(read) : read[i] = read[j] => vec[i] = vec[j]

C19_Witness ==
    /\ pc = "Ok"
    /\ Len(read) = 3
    /\ ItemOpenLines(read) = {1, 2, 3}
    /\ read[1] = read[3]
    /\ read[1] # read[2]
    /\ Len(vec) = 3
    /\ vec[1] = vec[3]
    /\ vec[1].mark # vec[2].mark

(***************************************************************************)
(* C11: for every mark m and memo t, `one` given "[m] t\n", with or        *)
(* without "* " in front, returns Item{nest 0, mark m, memo t} and leaves  *)
(* no input.                                                               *)
(***************************************************************************)
C11_OneWithOrWithoutMarker ==
    call = "one" =>
        \A m \in Marks, x \in Memos, b \in {<<>>, <<"*", " ">>} :
            input = b \o BoxLine(m, x) \o <<"\n">> =>
                /\ out.ok
                /\ out.rest = <<>>
                /\ out.val = Item(0, <<m>>, x)

(***************************************************************************)
(* C12: many0 given checkbox lines separated by blank lines returns one    *)
(* Item per checkbox line, in order, with the line's mark and memo, and    *)
(* leaves no input.                                                        *)
(***************************************************************************)
C12_Many0OneItemPerLine ==
    call = "many0" =>
        \A m1, m2 \in Marks, x1, x2 \in Memos :
            /\ input = BoxLine(m1, x1) \o <<"\n">> =>
                /\ out.ok
                /\ out.rest = <<>>
                /\ out.val = <<Item(0, <<m1>>, x1)>>
            /\ input = BoxLine(m1, x1) \o <<"\n", "\n">> \o BoxLine(m2, x2) \o <<"\n">> =>
                /\ out.ok
                /\ out.rest = <<>>
                /\ out.val = <<Item(0, <<m1>>, x1), Item(0, <<m2>>, x2)>>

(***************************************************************************)
(* C14: checkbox succeeds exactly on the texts that begin with an ASCII or *)
(* full-width open bracket, one character, and an ASCII or full-width shut *)
(* bracket, in any combination; it returns the three characters as they    *)
(* stand and the text after them.  So it fails on "[]" unless a shut       *)
(* bracket follows (the first "]" is then the mark), and on any text whose *)
(* third character is no shut bracket.                                     *)
(***************************************************************************)
C14_CheckboxGrammar ==
    call = "checkbox" =>
        /\ out.ok <=> /\ Len(input) >= 3
                      /\ input[1] \in {"[", FullwidthOpen}
                      /\ input[3] \in {"]", FullwidthShut}
        /\ out.ok =>
            /\ out.val = << <<input[1]>>, <<input[2]>>, <<input[3]>> >>
            /\ out.rest = SubSeq(input, 4, Len(input))

C14_Witness ==
    /\ call = "checkbox"
    /\ input = <<"[", CheckMark, FullwidthShut>>
    /\ out.ok
    /\ out.val[2] = <<CheckMark>>

(***************************************************************************)
(* C20: label1, label2 and label3, given a label of exactly 1, 2 and 3     *)
(* non-empty alphanumeric phrases, consume it all and return its open      *)
(* marker, phrases and splitters in order; label2 fails on a label of one  *)
(* phrase and label3 on a label of one or two phrases.                     *)
(***************************************************************************)
C20_LabelsByPhraseCount ==
    call \in {"label1", "label2", "label3"} =>
        \A o \in LabelOpens, s1, s2 \in LabelSplitters, p1, p2, p3 \in Phrases :
            LET l1 == <<o>> \o p1
                l2 == l1 \o <<s1>> \o p2
                l3 == l2 \o <<s2>> \o p3
            IN  /\ (call = "label1" /\ input = l1) =>
                    out = Ok(<<>>, << <<o>>, p1 >>)
                /\ (call = "label2" /\ input = l2) =>
                    out = Ok(<<>>, << <<o>>, p1, <<s1>>, p2 >>)
                /\ (call = "label3" /\ input = l3) =>
                    out = Ok(<<>>, << <<o>>, p1, <<s1>>, p2, <<s2>>, p3 >>)
                /\ (call = "label2" /\ input = l1) => ~out.ok
                /\ (call = "label3" /\ input \in {l1, l2}) => ~out.ok

C20_Witness ==
    /\ call = "label3"
    /\ input = <<FullwidthNumberSign, "a", "1", FullwidthColon, GreekAlpha, ":", "a">>
    /\ out.ok
    /\ out.rest = <<>>
    /\ Len(out.val) = 6

(***************************************************************************)
(* C21: label extraction finds a label wherever it stands in a memo: from  *)
(* a memo made of other text, a space and a two-phrase label, the label    *)
(* parser yields one match with the label's two phrases.                   *)
(***************************************************************************)
C21_LabelFoundAfterText ==
    call = "label2" =>
        \A o \in LabelOpens, p1 \in Phrases, s1 \in LabelSplitters, p2 \in Phrases :
            input = <<"b", " ", o>> \o p1 \o <<s1>> \o p2 =>
                /\ out.ok
                /\ out.val[2] = p1
                /\ out.val[4] = p2

(***************************************************************************)
(* C22: the text of an Item is "[", its mark, "] " and its memo, with      *)
(* nothing before the "[": a space stands for a mark that is None and "?"  *)
(* for a memo that is None, and items that differ in nest or labels only   *)
(* have the same text.                                                     *)
(***************************************************************************)
C22_DisplayIsCheckboxAndMemo ==
    call = "fmt" =>
        /\ out = <<"[">>
                 \o (IF input.mark = <<>> THEN <<" ">> ELSE input.mark[1])
                 \o <<"]", " ">>
                 \o (IF input.memo = <<>> THEN <<"?">> ELSE input.memo[1])
        /\ \A other \in Items :
              (other.mark = input.mark /\ other.memo = input.memo) =>
                  fmt(other) = out

C22_Witness ==
    /\ call = "fmt"
    /\ input.nest = <<3>>
    /\ input.mark = <<>>
    /\ input.memo = <<>>
    /\ input.label1s # <<>>
    /\ out = <<"[", " ", "]", " ", "?">>

(***************************************************************************)
(* C23: for every document, many0 succeeds and returns the sequence of     *)
(* records that load_items_via_str returns for it.                         *)
(***************************************************************************)
C23_Many0EqualsLoad ==
    (call = "many0" /\ input \in Documents) =>
        /\ out.ok
        /\ out.val = load_items_via_str(input).vec

(***************************************************************************)
(* Vocabulary of C24: the gaps of a document where blank lines do not      *)
(* count (before its first line, after its last line, and between a        *)
(* record's last line and the next ItemOpen line), and the documents made  *)
(* by putting a blank line into a gap or taking one out of it.             *)
(***************************************************************************)
BlankTexts == {<<>>, <<" ", "\t">>}

InsertLine(d, p, l) == SubSeq(d, 1, p) \o <<l>> \o SubSeq(d, p + 1, Len(d))

RemoveLine(d, i) == SubSeq(d, 1, i - 1) \o SubSeq(d, i + 1, Len(d))

\* The gap after line p of d (p = 0: before line 1).
IsFreeGap(d, p) ==
    \/ \A j \in 1..p : LineKindOf(d[j]) = "Blank"
    \/ \A j \in (p + 1)..Len(d) : LineKindOf(d[j]) = "Blank"
    \/ \E q \in (p + 1)..Len(d) :
          /\ LineKindOf(d[q]) = "ItemOpen"
          /\ \A j \in (p + 1)..(q - 1) : LineKindOf(d[j]) = "Blank"

(***************************************************************************)
(* C24: the result of a document is also the result of every document made *)
(* from it by putting one more blank line before its first line, after its *)
(* last line or between a record's last line and the next ItemOpen line,   *)
(* or by taking one blank line out of such a place.                        *)
(***************************************************************************)
C24_BlankLineCountIrrelevant ==
    pc = "Ok" =>
        /\ \A p \in 0..Len(read), b \in BlankTexts :
              IsFreeGap(read, p) =>
                  load_items_via_buf_read(InsertLine(read, p, b))
                      = [pc |-> "Ok", vec |-> vec]
        /\ \A i \in 1..Len(read) :
              (LineKindOf(read[i]) = "Blank" /\ IsFreeGap(RemoveLine(read, i), i - 1)) =>
                  load_items_via_buf_read(RemoveLine(read, i))
                      = [pc |-> "Ok", vec |-> vec]

C24_Witness ==
    /\ pc = "Ok"
    /\ Len(read) = 3
    /\ ItemOpenLines(read) = {1, 3}
    /\ BlankLines(read) = {2}
    /\ read[1] # read[3]
    /\ Len(vec) = 2
    /\ load_items_via_buf_read(RemoveLine(read, 2)).vec = vec
    /\ load_items_via_buf_read(InsertLine(read, 3, <<>>)).vec = vec

(***************************************************************************)
(* C25: every line of the memo of every record of the output is clean: it  *)
(* neither begins nor ends with a whitespace character.                    *)
(***************************************************************************)
\* The pieces of a memo between its newlines.
RECURSIVE MemoLines(_)
MemoLines(t) ==
    LET n == UntilLen(t, {"\n"})
    IN  IF n = Len(t) THEN <<t>>
        ELSE <<SubSeq(t, 1, n)>> \o MemoLines(Drop(t, n + 1))

IsClean(l) ==
    l # <<>> => /\ l[1] \notin {" ", "\t", "\f", "\r"}
                /\ l[Len(l)] \notin {" ", "\t", "\f", "\r"}

C25_MemoLinesClean ==
    \A k \in 1..Len(vec) :
        LET ls == MemoLines(vec[k].memo[1])
        IN  \A i \in 1..Len(ls) : IsClean(ls[i])

C25_Witness ==
    /\ pc = "Ok"
    /\ read = << Rep(" ", 4) \o <<"[", "!", "]", " ", "a", " ", "b", " ">>,
                 <<" ", "a", " ", "b", "\t">> >>
    /\ vec = <<Item(1, <<"!">>, <<"a", " ", "b", "\n", "a", " ", "b">>)>>

(***************************************************************************)
(* C26: when no Other line of the document is read while no record is in   *)
(* progress, the result has one record per ItemOpen line, and its k-th     *)
(* record is the one the k-th ItemOpen line opened: it has that line's     *)
(* nest and mark, and its memo is the line's memo fragment followed by the *)
(* Other lines up to the next ItemOpen line.                               *)
(***************************************************************************)
C26_OneRecordPerItemOpen ==
    (pc = "Ok" /\ IdleOtherLines(read) = {}) =>
        /\ Len(vec) = Cardinality(ItemOpenLines(read))
        /\ \A k \in 1..Len(vec) :
            LET i == Kth(ItemOpenLines(read), k)
                later == {j \in ItemOpenLines(read) : j > i}
                stop == IF later = {} THEN Len(read)
                        ELSE Kth(ItemOpenLines(read), k + 1) - 1
            IN  vec[k] = Item(OpenNest(read[i]), OpenMark(read[i]),
                              OpenMemo(read[i]) \o JoinLines(read, i + 1, stop))

C26_Witness ==
    /\ pc = "Ok"
    /\ Len(read) = 3
    /\ ItemOpenLines(read) = {1, 3}
    /\ OtherLines(read) = {2}
    /\ Len(vec) = 2
    /\ vec[1].mark # vec[2].mark
    /\ vec[1].memo # <<OpenMemo(read[1])>>

(***************************************************************************)
(* C27: a record in progress is put into the output exactly once.  Reading *)
(* a line appends at most one record, and none when no record is in        *)
(* progress; the end of input appends nothing after a last line that is    *)
(* blank; and the result has exactly one record per record started.        *)
(***************************************************************************)
C27_EmittedExactlyOnce ==
    [][/\ Len(vec') <= Len(vec) + 1
       /\ (read' # read /\ state = "Do") => vec' = vec
       /\ (pc = "loop" /\ pc' = "Ok" /\ read # <<>>
            /\ Len(read) \in BlankLines(read)) => vec' = vec
       /\ pc' = "Ok" => Len(vec') = Cardinality(StartLines(read'))
      ]_vars

C27_Witness ==
    /\ pc = "Ok"
    /\ Len(read) = 3
    /\ ItemOpenLines(read) = {1}
    /\ BlankLines(read) = {2, 3}
    /\ read[2] # read[3]
    /\ Len(vec) = 1

(***************************************************************************)
(* C28: whitespace_to_nest cuts each count to 8 bits before it combines    *)
(* them.  With t the number of tabs mod 256 and q the number of spaces mod *)
(* 256, divided by 4 and rounded down, the result is t + q whenever that   *)
(* is at most 255; so 256 spaces, or 256 tabs, give 0.  For other inputs,  *)
(* 255 tabs and 4 spaces among them, t + q exceeds 255, and the call then  *)
(* panics or returns t + q - 256.                                          *)
(***************************************************************************)
C28_NestIsTruncatedSum ==
    call = "whitespace_to_nest" =>
        LET t == Count(input, "\t") % 256
            q == (Count(input, " ") % 256) \div 4
        IN  /\ t + q <= 255 => (~out.panic /\ out.val = t + q)
            /\ t + q > 255 => (out.panic \/ out.val = t + q - 256)
            /\ input \in {Rep(" ", 256), Rep("\t", 256)} =>
                  (~out.panic /\ out.val = 0)
            /\ input = Rep("\t", 255) \o Rep(" ", 4) => t + q > 255

C28_Witness ==
    /\ call = "whitespace_to_nest"
    /\ input = Rep(" ", 256)
    /\ ~out.panic
    /\ out.val = 0

(***************************************************************************)
(* C29: for every record r of the result, loading the text of r gives      *)
(* exactly one record, with the mark and the memo of r and nest 0.         *)
(***************************************************************************)
C29_DisplayThenLoad ==
    pc = "Ok" =>
        \A k \in 1..Len(vec) :
            load_items_via_str(fmt(vec[k]))
                = [pc |-> "Ok",
                   vec |-> <<Item(0, vec[k].mark[1], vec[k].memo[1])>>]

C29_Witness ==
    /\ pc = "Ok"
    /\ Len(vec) = 2
    /\ vec[1].nest = <<2>>
    /\ vec[1].memo = << <<>> >>
    /\ vec[2].nest = <<1>>
    /\ vec[2].memo = << <<"a", " ", "b", "\n", "b">> >>
    /\ load_items_via_str(fmt(vec[2])).vec[1].nest = <<0>>

(***************************************************************************)
(* C30: every record that load_items_via_str or `one` returns has no       *)
(* label1s and no label2s, and the text of a label that stands in a line   *)
(* of the input stands in a memo as it is: in the memo `one` returns when  *)
(* the label is in the first line, and for each line with a label in a     *)
(* memo of the records load_items_via_str returns.                         *)
(***************************************************************************)
Contains(t, x) ==
    \E i \in 1..(Len(t) - Len(x) + 1) : SubSeq(t, i, i + Len(x) - 1) = x

C30_LabelsStayInMemo ==
    /\ (call = "one" /\ out.ok) =>
          /\ out.val.label1s = <<>>
          /\ out.val.label2s = <<>>
          /\ (input # <<>> /\ Contains(lines(input)[1], LabelText)) =>
                Contains(out.val.memo[1], LabelText)
    /\ call = "load_items_via_str" =>
          /\ \A k \in 1..Len(out.vec) :
                /\ out.vec[k].label1s = <<>>
                /\ out.vec[k].label2s = <<>>
          /\ \A i \in 1..Len(lines(input)) :
                Contains(lines(input)[i], LabelText) =>
                    \E k \in 1..Len(out.vec) :
                        Contains(out.vec[k].memo[1], LabelText)
          /\ input = <<"*", " ", "[", "x", "]", " ", "a", " ">> \o LabelText
                        \o <<"\n", " ">> \o LabelText \o <<"\n">> =>
                out.vec = <<Item(0, <<"x">>, <<"a", " ">> \o LabelText
                                               \o <<"\n">> \o LabelText)>>

C30_Witness ==
    /\ call = "load_items_via_str"
    /\ input = <<"*", " ", "[", "x", "]", " ", "a", " ">> \o LabelText
                  \o <<"\n", " ">> \o LabelText \o <<"\n">>
    /\ Len(out.vec) = 1
    /\ out.vec[1].label2s = <<>>
    /\ Contains(out.vec[1].memo[1], <<"\n">> \o LabelText)

(***************************************************************************)
(* C31: a phrase may be empty.  label_phrase succeeds on every text and    *)
(* returns its longest run of leading alphanumeric characters, the empty   *)
(* run included; label1 succeeds with an empty phrase on a label-open      *)
(* character that the end of the text or a character that is not           *)
(* alphanumeric follows, and leaves the text after the label-open          *)
(* character; label1 given a label of two phrases returns the first        *)
(* phrase and leaves the splitter and the second phrase.                   *)
(***************************************************************************)
C31_PhraseMayBeEmpty ==
    /\ call = "label_phrase" =>
          /\ out.ok
          /\ out.val \o out.rest = input
          /\ \A i \in 1..Len(out.val) : out.val[i] \in Alphanumeric
          /\ out.rest # <<>> => out.rest[1] \notin Alphanumeric
    /\ call = "label1" =>
          \A o \in LabelOpens :
              /\ (/\ input # <<>>
                  /\ input[1] = o
                  /\ Len(input) >= 2 => input[2] \notin Alphanumeric) =>
                    out = Ok(Drop(input, 1), << <<o>>, <<>> >>)
              /\ \A p1, p2 \in Phrases, s1 \in LabelSplitters :
                    input = <<o>> \o p1 \o <<s1>> \o p2 =>
                        out = Ok(<<s1>> \o p2, << <<o>>, p1 >>)

C31_Witness ==
    /\ call = "label1"
    /\ input = <<"#", ":", "a">>
    /\ out.ok
    /\ out.val = << <<"#">>, <<>> >>
    /\ out.rest = <<":", "a">>
====
